---- MODULE Spec2Model ----
(***************************************************************************)
(* The WebSocket handler of peteywee/api.  The repository carries two      *)
(* versions of setupWebSocket:                                             *)
(*   "simple": src/src/ws/handler.ts (and setup.sh 200-233), which         *)
(*             rebroadcasts every inbound frame to the other clients;      *)
(*   "typed" : the handler written by setup.sh 706-790, which parses the   *)
(*             frame as JSON and switches on message.type.                 *)
(* wss.clients, readyState and the outbound buffer are those of the ws     *)
(* library (ws ^8): a server-side socket is OPEN when "connection" is      *)
(* emitted, becomes CLOSING on a close frame or a socket error, becomes    *)
(* CLOSED when the socket closes, and is deleted from wss.clients in the   *)
(* same step in which it becomes CLOSED.  Every handler runs to completion *)
(* (one JavaScript event-loop turn), so each handler is one action.        *)
(***************************************************************************)
EXTENDS Integers, Sequences, FiniteSets, TLC

\* ---------------------------------------------------------------- bounds
MaxConn == 3      \* connections accepted during a run
MaxEvents == 6    \* events (event-loop turns) handled during a run

\* outboundQueue capacity: a policy constant of the specification; the
\* handlers never bound the queue
QueueCapacity == 2

Ids == 1..MaxConn

Handlers == {"simple", "typed"}

\* raw inbound frames (the text of the frame): a ping, a broadcast request, a
\* message of a type the switch has no case for, and text that is not JSON
Frames == {"ping", "broadcast", "chat", "not json"}

VARIABLES
    handler,      \* which setupWebSocket is deployed
    clients,      \* wss.clients
    readyState,   \* ws.readyState of every socket ("NONE": not yet accepted)
    buffer,       \* messages passed to ws.send and not yet written
    wire,         \* messages written to the transport, in write order
    sent,         \* every message passed to ws.send of the socket, in call order
    errored,      \* sockets whose "error" handler has run
    server,       \* the HTTP server: "listening", "closing" (server.close() called), "exited"
    events        \* events handled so far (close events and the exit aside)

vars == <<handler, clients, readyState, buffer, wire, sent, errored, server, events>>

\* ---------------------------------------------------------------- frames
\* JSON.parse(data.toString()): "not json" throws; the others parse to an
\* object with a type and, except ping, a data field
JSONparse(frame) ==
    CASE frame = "not json"  -> [ok |-> FALSE, type |-> "", data |-> ""]
      [] frame = "ping"      -> [ok |-> TRUE, type |-> "ping", data |-> ""]
      [] frame = "broadcast" -> [ok |-> TRUE, type |-> "broadcast", data |-> "hi"]
      [] OTHER               -> [ok |-> TRUE, type |-> "chat", data |-> "yo"]

\* the try block throws when JSON.parse throws
Throws(frame) == ~JSONparse(frame).ok

\* ---------------------------------------------------------------- messages
Welcome(h) ==
    IF h = "simple" THEN [tag |-> "welcome", body |-> "Welcome to the WebSocket server!"]
                    ELSE [tag |-> "welcome", body |-> "Connected"]

Pong == [tag |-> "pong", body |-> ""]

BroadcastOf(h, frame) ==
    IF h = "simple" THEN [tag |-> "broadcast", body |-> frame]
                    ELSE [tag |-> "broadcast", body |-> JSONparse(frame).data]

EchoOf(frame) == [tag |-> "echo", body |-> frame]

InvalidJSON == [tag |-> "error", body |-> "Invalid JSON format"]

\* ---------------------------------------------------------------- ws.send
\* ws.send on an OPEN socket appends to the socket's outbound buffer and
\* returns; on a socket that is not OPEN the data is dropped (ws 8)
EnqueueFront(q, m) == <<m>> \o q

Enqueue(q, m) == Append(q, m)

Accepting(targets) == {c \in targets : readyState[c] = "OPEN"}

SendAll(buf, targets, m) ==
    [c \in Ids |-> IF c \in Accepting(targets) THEN Enqueue(buf[c], m) ELSE buf[c]]

LogAll(log, targets, m) ==
    [c \in Ids |-> IF c \in targets THEN Append(log[c], m) ELSE log[c]]

\* the socket the next "connection" event carries: a new WebSocket object
NewSocketReused ==
    IF \E c \in Ids : readyState[c] = "CLOSED"
    THEN CHOOSE c \in Ids : readyState[c] = "CLOSED"
    ELSE Cardinality({c \in Ids : readyState[c] # "NONE"}) + 1

NewSocket == Cardinality({c \in Ids : readyState[c] # "NONE"}) + 1

\* ---------------------------------------------------------------- routing
\* wss.clients.forEach(client => if (client !== ws && client.readyState === OPEN) ...)
BroadcastTargetsNoExclude(ws) == {client \in clients : readyState[client] = "OPEN"}

\* the loop without the readyState test, where send on a socket that is not
\* OPEN throws and ends the forEach (clients are visited in insertion order)
BroadcastTargetsAbortOnBroken(ws) ==
    {client \in clients \ {ws} :
        \A d \in clients \ {ws} : d <= client => readyState[d] = "OPEN"}

\* the loop without the readyState check
BroadcastTargetsNoOpenCheck(ws) == {client \in clients : client # ws}

\* the loop stops after the first client it sends to
BroadcastTargetsFirstOnly(ws) ==
    {client \in clients :
        /\ client # ws /\ readyState[client] = "OPEN"
        /\ \A d \in clients : (d # ws /\ readyState[d] = "OPEN") => client <= d}

BroadcastTargets(ws) ==
    {client \in clients : client # ws /\ readyState[client] = "OPEN"}

\* the typed handler's try/switch/catch: the recipients and the message
RoutePingFallsThrough(ws, frame) ==
    IF Throws(frame) THEN [to |-> {ws}, msg |-> InvalidJSON]
    ELSE CASE JSONparse(frame).type = "ping" ->
                [to |-> {ws} \cup BroadcastTargets(ws), msg |-> Pong]
           [] JSONparse(frame).type = "broadcast" ->
                [to |-> BroadcastTargets(ws), msg |-> BroadcastOf("typed", frame)]
           [] OTHER -> [to |-> {ws}, msg |-> EchoOf(frame)]

RouteNoDefault(ws, frame) ==
    IF Throws(frame) THEN [to |-> {ws}, msg |-> InvalidJSON]
    ELSE CASE JSONparse(frame).type = "ping" -> [to |-> {ws}, msg |-> Pong]
           [] JSONparse(frame).type = "broadcast" ->
                [to |-> BroadcastTargets(ws), msg |-> BroadcastOf("typed", frame)]
           [] OTHER -> [to |-> {}, msg |-> EchoOf(frame)]

RouteNoCatch(ws, frame) ==
    IF Throws(frame) THEN [to |-> {}, msg |-> InvalidJSON]
    ELSE CASE JSONparse(frame).type = "ping" -> [to |-> {ws}, msg |-> Pong]
           [] JSONparse(frame).type = "broadcast" ->
                [to |-> BroadcastTargets(ws), msg |-> BroadcastOf("typed", frame)]
           [] OTHER -> [to |-> {ws}, msg |-> EchoOf(frame)]

\* the replies go to the socket accepted last, as with one ws variable shared
\* by all connection handlers
RouteReplyToLatest(ws, frame) ==
    IF Throws(frame) THEN [to |-> {NewSocket - 1}, msg |-> InvalidJSON]
    ELSE CASE JSONparse(frame).type = "ping" -> [to |-> {NewSocket - 1}, msg |-> Pong]
           [] JSONparse(frame).type = "broadcast" ->
                [to |-> BroadcastTargets(ws), msg |-> BroadcastOf("typed", frame)]
           [] OTHER -> [to |-> {NewSocket - 1}, msg |-> EchoOf(frame)]

Route(ws, frame) ==
    IF Throws(frame) THEN [to |-> {ws}, msg |-> InvalidJSON]
    ELSE CASE JSONparse(frame).type = "ping" -> [to |-> {ws}, msg |-> Pong]
           [] JSONparse(frame).type = "broadcast" ->
                [to |-> BroadcastTargets(ws), msg |-> BroadcastOf("typed", frame)]
           [] OTHER -> [to |-> {ws}, msg |-> EchoOf(frame)]

\* ---------------------------------------------------------------- lifecycle
Rank(s) == CASE s = "NONE" -> 0 [] s = "CONNECTING" -> 1 [] s = "OPEN" -> 2
             [] s = "CLOSING" -> 3 [] OTHER -> 4

\* one more event is handled by the running process
Turn == server # "exited" /\ events < MaxEvents /\ events' = events + 1

\* wss.clients after the "close" event of ws
ClientsAfterCloseKeep(ws) == clients

ClientsAfterClose(ws) == clients \ {ws}

\* ---------------------------------------------------------------- actions
Init ==
    /\ handler \in Handlers
    /\ clients = {}
    /\ readyState = [c \in Ids |-> "NONE"]
    /\ buffer = [c \in Ids |-> <<>>]
    /\ wire = [c \in Ids |-> <<>>]
    /\ sent = [c \in Ids |-> <<>>]
    /\ errored = {}
    /\ server = "listening"
    /\ events = 0

\* a connection handler that announces the new socket by sending the welcome
\* message to every client
ConnectionWelcomeAll ==
    /\ Turn
    /\ server = "listening"
    /\ NewSocket \in Ids
    /\ LET ws == NewSocket IN
        /\ clients' = clients \cup {ws}
        /\ readyState' = [readyState EXCEPT ![ws] = "OPEN"]
        /\ buffer' = [SendAll(buffer, clients, Welcome(handler))
                          EXCEPT ![ws] = Enqueue(<<>>, Welcome(handler))]
        /\ sent' = [LogAll(sent, clients, Welcome(handler))
                          EXCEPT ![ws] = <<Welcome(handler)>>]
        /\ wire' = [wire EXCEPT ![ws] = <<>>]
    /\ UNCHANGED <<handler, errored, server>>

\* wss.on("connection", ws => ...): the handlers are installed and the
\* welcome message is sent to the new socket
Connection ==
    /\ Turn
    /\ server = "listening"
    /\ NewSocket \in Ids
    /\ LET ws == NewSocket IN
        /\ clients' = clients \cup {ws}
        /\ readyState' = [readyState EXCEPT ![ws] = "OPEN"]
        /\ buffer' = [buffer EXCEPT ![ws] = Enqueue(<<>>, Welcome(handler))]
        /\ sent' = [sent EXCEPT ![ws] = <<Welcome(handler)>>]
        /\ wire' = [wire EXCEPT ![ws] = <<>>]
    /\ UNCHANGED <<handler, errored, server>>

\* the message handler with a loop that also deletes the clients it finds
\* not OPEN from wss.clients
MessageSimpleEvicting(ws, frame) ==
    /\ handler = "simple"
    /\ Turn
    /\ readyState[ws] = "OPEN"
    /\ buffer' = SendAll(buffer, BroadcastTargets(ws), BroadcastOf("simple", frame))
    /\ sent' = LogAll(sent, BroadcastTargets(ws), BroadcastOf("simple", frame))
    /\ clients' = {c \in clients : readyState[c] = "OPEN"}
    /\ UNCHANGED <<handler, readyState, wire, errored, server>>

\* ws.on("message") of src/src/ws/handler.ts
MessageSimple(ws, frame) ==
    /\ handler = "simple"
    /\ Turn
    /\ readyState[ws] = "OPEN"
    /\ buffer' = SendAll(buffer, BroadcastTargets(ws), BroadcastOf("simple", frame))
    /\ sent' = LogAll(sent, BroadcastTargets(ws), BroadcastOf("simple", frame))
    /\ UNCHANGED <<handler, clients, readyState, wire, errored, server>>

\* ws.on("message") of the handler setup.sh writes
MessageTyped(ws, frame) ==
    /\ handler = "typed"
    /\ Turn
    /\ readyState[ws] = "OPEN"
    /\ buffer' = SendAll(buffer, Route(ws, frame).to, Route(ws, frame).msg)
    /\ sent' = LogAll(sent, Route(ws, frame).to, Route(ws, frame).msg)
    /\ UNCHANGED <<handler, clients, readyState, wire, errored, server>>

\* the peer's close frame arrives (or the peer ends the stream): the socket
\* is CLOSING until the transport closes; no handler of the repository runs
CloseFrame(ws) ==
    /\ Turn
    /\ readyState[ws] = "OPEN"
    /\ readyState' = [readyState EXCEPT ![ws] = "CLOSING"]
    /\ UNCHANGED <<handler, clients, buffer, wire, sent, errored, server>>

\* ws.on("error"): the transport failed; the handler only logs
Error(ws) ==
    /\ Turn
    /\ readyState[ws] = "OPEN"
    /\ readyState' = [readyState EXCEPT ![ws] = "CLOSING"]
    /\ errored' = errored \cup {ws}
    /\ UNCHANGED <<handler, clients, buffer, wire, sent, server>>

\* ws.on("close"): the socket closed (the peer ended the stream, the
\* library's close timer fired or the broken socket was destroyed); the
\* handler only logs and the library deletes the socket from wss.clients.
\* A socket closes once, so the step needs no bound.
\* a close that waits for the socket's writer to empty the buffer
CloseOnlyWhenDrained(ws) ==
    /\ server # "exited"
    /\ readyState[ws] = "CLOSING"
    /\ buffer[ws] = <<>>
    /\ readyState' = [readyState EXCEPT ![ws] = "CLOSED"]
    /\ clients' = ClientsAfterClose(ws)
    /\ UNCHANGED <<handler, buffer, wire, sent, errored, server, events>>

Close(ws) ==
    /\ server # "exited"
    /\ readyState[ws] = "CLOSING"
    /\ readyState' = [readyState EXCEPT ![ws] = "CLOSED"]
    /\ clients' = ClientsAfterClose(ws)
    /\ UNCHANGED <<handler, buffer, wire, sent, errored, server, events>>

\* the socket's writer puts the oldest buffered message on the transport
Drain(ws) ==
    /\ Turn
    /\ readyState[ws] \in {"OPEN", "CLOSING"}
    /\ ws \notin errored
    /\ buffer[ws] # <<>>
    /\ wire' = [wire EXCEPT ![ws] = Append(@, Head(buffer[ws]))]
    /\ buffer' = [buffer EXCEPT ![ws] = Tail(@)]
    /\ UNCHANGED <<handler, clients, readyState, sent, errored, server>>

\* process.on("SIGTERM") / process.on("SIGINT") of the server.ts setup.sh
\* writes: server.close() stops the listener and leaves the open sockets alone
Signal ==
    /\ handler = "typed"
    /\ Turn
    /\ server = "listening"
    /\ server' = "closing"
    /\ UNCHANGED <<handler, clients, readyState, buffer, wire, sent, errored>>

\* the callback of server.close(): every connection of the server has ended
\* and the process exits
Exit ==
    /\ server = "closing"
    /\ \A c \in Ids : readyState[c] \in {"NONE", "CLOSED"}
    /\ server' = "exited"
    /\ UNCHANGED <<handler, clients, readyState, buffer, wire, sent, errored, events>>

Next ==
    \/ Connection
    \/ \E ws \in Ids, frame \in Frames : MessageSimple(ws, frame)
    \/ \E ws \in Ids, frame \in Frames : MessageTyped(ws, frame)
    \/ \E ws \in Ids : CloseFrame(ws)
    \/ \E ws \in Ids : Error(ws)
    \/ \E ws \in Ids : Close(ws)
    \/ \E ws \in Ids : Drain(ws)
    \/ Signal
    \/ Exit

Spec == Init /\ [][Next]_vars

\* the library ends every CLOSING socket (close timer, socket destroy) and
\* the callback of server.close() runs once every connection has ended
LiveSpec ==
    /\ Init /\ [][Next]_vars
    /\ \A ws \in Ids : WF_vars(Close(ws))
    /\ WF_vars(Exit)

TypeOK ==
    /\ handler \in Handlers
    /\ clients \subseteq Ids
    /\ \A c \in Ids : readyState[c] \in {"NONE", "OPEN", "CLOSING", "CLOSED"}
    /\ server \in {"listening", "closing", "exited"}
    /\ events \in 0..MaxEvents

\* ---------------------------------------------------------------- claims
\* a step in which ws asks for a broadcast of frame: every frame under the
\* simple handler, a frame of type "broadcast" under the typed handler
BroadcastStep(ws, frame) ==
    \/ MessageSimple(ws, frame)
    \/ MessageTyped(ws, frame) /\ JSONparse(frame).ok /\ JSONparse(frame).type = "broadcast"

\* the message a recipient of the broadcast of frame is expected to get
Broadcasted(frame) ==
    [tag |-> "broadcast",
     body |-> IF handler = "simple" THEN frame ELSE JSONparse(frame).data]

\* C1 (as stated): a broadcast from ws delivers nothing to ws and exactly one
\* broadcast-tagged message with the payload to every other connection that
\* is in wss.clients at the time of the call.
C1_AsStated ==
    [][\A ws \in Ids, frame \in Frames :
          BroadcastStep(ws, frame) =>
              /\ sent'[ws] = sent[ws]
              /\ \A c \in clients \ {ws} :
                    sent'[c] = Append(sent[c], Broadcasted(frame))]_vars

\* C1 (amended): a broadcast from ws delivers nothing to ws, exactly one
\* broadcast-tagged message with the payload to every other connection that
\* is in wss.clients and OPEN at the time of the call, and nothing to anyone
\* else.
C1_BroadcastExclusion ==
    [][\A ws \in Ids, frame \in Frames :
          BroadcastStep(ws, frame) =>
              /\ sent'[ws] = sent[ws] /\ buffer'[ws] = buffer[ws]
              /\ \A c \in Ids \ {ws} :
                    IF c \in clients /\ readyState[c] = "OPEN"
                    THEN /\ sent'[c] = Append(sent[c], Broadcasted(frame))
                         /\ buffer'[c] = Append(buffer[c], Broadcasted(frame))
                    ELSE sent'[c] = sent[c] /\ buffer'[c] = buffer[c]]_vars

\* three connections are registered and OPEN and the fourth event was a
\* broadcast request of one of them: the two others hold exactly one broadcast-tagged
\* message after their welcome, the sender holds only its welcome
C1_Witness ==
    /\ events = 4
    /\ \E a, b, c \in Ids :
          /\ a # b /\ a # c /\ b # c
          /\ {a, b, c} \subseteq clients
          /\ \A x \in {a, b, c} : readyState[x] = "OPEN"
          /\ Len(sent[a]) = 1
          /\ Len(sent[b]) = 2 /\ sent[b][2] = [tag |-> "broadcast", body |-> "hi"]
          /\ Len(sent[c]) = 2 /\ sent[c][2] = [tag |-> "broadcast", body |-> "hi"]

\* every connection other than ws keeps its call log and its buffer
OthersUntouched(ws) ==
    \A c \in Ids \ {ws} : sent'[c] = sent[c] /\ buffer'[c] = buffer[c]

\* exactly one message, m, is enqueued to ws
OneReply(ws, m) ==
    sent'[ws] = Append(sent[ws], m) /\ buffer'[ws] = Append(buffer[ws], m)

\* C2: under the typed handler a ping frame from ws enqueues exactly one
\* pong-tagged reply to ws and nothing to any other connection.
C2_PingPong ==
    [][\A ws \in Ids :
          MessageTyped(ws, "ping") =>
              /\ \E m \in {sent'[ws][Len(sent'[ws])]} : m.tag = "pong" /\ OneReply(ws, m)
              /\ OthersUntouched(ws)]_vars

\* after two connections and one frame, a connection holds a pong after its
\* welcome while the other OPEN connection holds only its welcome
C2_Witness ==
    /\ events = 3
    /\ \E a, b \in clients :
          /\ a # b /\ readyState[a] = "OPEN" /\ readyState[b] = "OPEN"
          /\ Len(sent[a]) = 2 /\ sent[a][2].tag = "pong"
          /\ Len(sent[b]) = 1

\* C3: under the typed handler a frame that fails to parse gets exactly one
\* error-tagged reply to the sender, nothing goes to any other connection,
\* and the sender stays OPEN and in wss.clients.
C3_MalformedReply ==
    [][\A ws \in Ids, frame \in Frames :
          (MessageTyped(ws, frame) /\ ~JSONparse(frame).ok) =>
              /\ \E m \in {sent'[ws][Len(sent'[ws])]} : m.tag = "error" /\ OneReply(ws, m)
              /\ OthersUntouched(ws)
              /\ readyState'[ws] = "OPEN" /\ ws \in clients']_vars

\* a connection that sent "not json" holds the error reply, is still OPEN and
\* registered, and another OPEN connection holds only its welcome
C3_Witness ==
    /\ events = 3
    /\ \E a, b \in clients :
          /\ a # b /\ readyState[a] = "OPEN" /\ readyState[b] = "OPEN"
          /\ Len(sent[a]) = 2 /\ sent[a][2] = [tag |-> "error", body |-> "Invalid JSON format"]
          /\ Len(sent[b]) = 1

\* C4: under the typed handler a frame that parses and whose type is neither
\* ping nor broadcast gets exactly one echo-tagged message carrying the
\* received message, sent to the sender only.
C4_EchoFallback ==
    [][\A ws \in Ids, frame \in Frames :
          (/\ MessageTyped(ws, frame)
           /\ JSONparse(frame).ok
           /\ JSONparse(frame).type \notin {"ping", "broadcast"}) =>
              /\ \E m \in {sent'[ws][Len(sent'[ws])]} :
                    /\ m.tag = "echo"
                    /\ JSONparse(m.body).data = JSONparse(frame).data
                    /\ JSONparse(m.body).type = JSONparse(frame).type
                    /\ OneReply(ws, m)
              /\ OthersUntouched(ws)]_vars

\* a connection that sent a frame of the unknown type "chat" holds the echo
\* of it while another OPEN connection holds only its welcome
C4_Witness ==
    /\ events = 3
    /\ \E a, b \in clients :
          /\ a # b /\ readyState[a] = "OPEN" /\ readyState[b] = "OPEN"
          /\ Len(sent[a]) = 2 /\ sent[a][2] = [tag |-> "echo", body |-> "chat"]
          /\ Len(sent[b]) = 1

\* C5 (as stated): once some connection's stream is broken, every broadcast
\* is delivered to every other connection that is still in wss.clients (the
\* sender and the broken connections aside).
C5_AsStated ==
    [][\A ws \in Ids, frame \in Frames :
          (BroadcastStep(ws, frame) /\ errored # {}) =>
              \A c \in clients \ (errored \cup {ws}) :
                  sent'[c] = Append(sent[c], Broadcasted(frame))]_vars

\* C5 (amended): the "error" event of one connection changes nothing of any
\* other connection, and once some connection's stream is broken every
\* broadcast is still delivered to every other connection that is in
\* wss.clients and OPEN (the sender aside).
C5_Isolation ==
    [][/\ \A x \in Ids :
            Error(x) =>
                /\ clients' = clients
                /\ \A c \in Ids \ {x} : readyState'[c] = readyState[c]
                /\ OthersUntouched(x)
       /\ \A ws \in Ids, frame \in Frames :
            (BroadcastStep(ws, frame) /\ errored # {}) =>
                \A c \in clients \ {ws} :
                    readyState[c] = "OPEN" =>
                        /\ sent'[c] = Append(sent[c], Broadcasted(frame))
                        /\ buffer'[c] = Append(buffer[c], Broadcasted(frame))]_vars

\* x, a and c were accepted, x had an error and one frame was handled, a
\* broadcast from a: c holds it, and x, whose stream had been broken before,
\* holds only its welcome (a < c and a OPEN without the message make a the
\* sender; x < c without the message makes x not OPEN at the time)
C5_Witness ==
    /\ events = 5
    /\ \E x, a, c \in Ids :
          /\ x # a /\ x < c /\ a < c
          /\ x \in errored
          /\ readyState[a] = "OPEN" /\ readyState[c] = "OPEN"
          /\ Len(sent[x]) = 1 /\ Len(sent[a]) = 1
          /\ Len(sent[c]) = 2 /\ sent[c][2].tag = "broadcast"

\* C6: the outbound queue of a connection never holds more than
\* QueueCapacity messages (a send on a full queue fails with QueueFull and
\* enqueues nothing).
C6_QueueBounded ==
    \A c \in Ids : Len(buffer[c]) <= QueueCapacity

\* C7: a connection whose outbound queue has been filled past capacity is
\* CLOSING or CLOSED.
C7_OverflowCloses ==
    \A c \in Ids :
        Len(buffer[c]) > QueueCapacity => readyState[c] \in {"CLOSING", "CLOSED"}

IsPrefix(p, q) ==
    Len(p) <= Len(q) /\ \A i \in 1..Len(p) : p[i] = q[i]

\* C8: for every connection, the messages written to the transport are a
\* prefix of the messages enqueued to it, in enqueue order.
C8_Fifo ==
    \A c \in Ids : IsPrefix(wire[c], sent[c])

\* a connection was sent its welcome, then a unicast pong, then a broadcast,
\* and its writer has written the first two of them
C8_Witness ==
    \E c \in Ids :
        /\ Len(sent[c]) = 3 /\ sent[c][2].tag = "pong" /\ sent[c][3].tag = "broadcast"
        /\ Len(wire[c]) = 2 /\ wire[c][2].tag = "pong"

\* C9 (as stated): every connection in wss.clients is OPEN or CONNECTING.
C9_AsStated ==
    \A c \in clients : readyState[c] \in {"CONNECTING", "OPEN"}

\* C9 (amended): every connection in wss.clients is CONNECTING, OPEN or
\* CLOSING, every such connection is in wss.clients, and a CLOSED connection
\* is never in wss.clients.
C9_RegistryInvariant ==
    \A c \in Ids :
        c \in clients <=> readyState[c] \in {"CONNECTING", "OPEN", "CLOSING"}

\* one connection has closed and is out of wss.clients while another one is
\* CLOSING and still in it
C9_Witness ==
    \E c, d \in Ids :
        /\ readyState[c] = "CLOSED" /\ c \notin clients
        /\ readyState[d] = "CLOSING" /\ d \in clients

\* C10: the state of a connection only moves forward along
\* CONNECTING, OPEN, CLOSING, CLOSED; CLOSED is terminal, and a connection
\* that has been CLOSING or CLOSED is never OPEN again.
C10_Monotone ==
    [][\A c \in Ids :
          /\ Rank(readyState'[c]) >= Rank(readyState[c])
          /\ readyState[c] = "CLOSED" => readyState'[c] = "CLOSED"
          /\ readyState[c] \in {"CLOSING", "CLOSED"} => readyState'[c] # "OPEN"]_vars

\* a connection has run through OPEN and CLOSING to CLOSED, and a connection
\* accepted after it is OPEN
C10_Witness ==
    \E c, d \in Ids :
        /\ c < d
        /\ readyState[c] = "CLOSED"
        /\ readyState[d] = "OPEN"

\* C13: a broadcast is one step over the clients registered when it is
\* called: it leaves wss.clients and every readyState as they are, enqueues
\* the whole message or nothing to each connection, and only to connections
\* registered at the call; an OPEN connection can always broadcast; and the
\* registration or removal of a connection changes the messages of no other
\* connection.
C13_BroadcastSnapshot ==
    [][/\ \A ws \in Ids, frame \in Frames :
            BroadcastStep(ws, frame) =>
                /\ clients' = clients /\ readyState' = readyState
                /\ \A c \in Ids :
                      \/ sent'[c] = sent[c] /\ buffer'[c] = buffer[c]
                      \/ /\ c \in clients
                         /\ sent'[c] = Append(sent[c], Broadcasted(frame))
                         /\ buffer'[c] = Append(buffer[c], Broadcasted(frame))
       /\ \A ws \in Ids :
            (readyState[ws] = "OPEN" /\ events < MaxEvents) =>
                ENABLED BroadcastStep(ws, "broadcast")
       /\ Connection => OthersUntouched(NewSocket)
       /\ \A x \in Ids :
            Close(x) => OthersUntouched(x) /\ sent'[x] = sent[x]]_vars

\* three connections and one frame: the broadcast was handled while only
\* two connections were registered, the third was registered after it and
\* holds only its welcome, as the sender does
C13_Witness ==
    /\ events = 4
    /\ \A c \in {1, 2, 3} : c \in clients /\ readyState[c] = "OPEN"
    /\ Len(sent[3]) = 1
    /\ \E a, b \in {1, 2} :
          /\ a # b
          /\ Len(sent[a]) = 1
          /\ Len(sent[b]) = 2 /\ sent[b][2].tag = "broadcast"

\* a step in which the typed handler answers ws by a unicast (pong, echo or
\* error reply)
UnicastStep(ws, frame) ==
    MessageTyped(ws, frame) /\ (Throws(frame) \/ JSONparse(frame).type # "broadcast")

C15_ClosingCloses ==
    \A c \in Ids : (readyState[c] = "CLOSING") ~> (readyState[c] = "CLOSED")

\* a socket whose transport failed closed with its welcome still undelivered
C15_Witness ==
    \E c \in Ids :
        /\ readyState[c] = "CLOSED"
        /\ c \in errored
        /\ buffer[c] # <<>>
        /\ wire[c] = <<>>

\* C16: once shutdown is requested, eventually every connection is CLOSED
\* and the client set is empty.
C16_ShutdownCloses ==
    (server = "closing") ~>
        (clients = {} /\ \A c \in Ids : readyState[c] \in {"NONE", "CLOSED"})

\* C17: on every message event, under either handler, the server sends the
\* sender one message, and that message carries the received frame.
C17_EchoEveryMessage ==
    [][\A ws \in Ids, frame \in Frames :
          (MessageSimple(ws, frame) \/ MessageTyped(ws, frame)) =>
              /\ Len(sent'[ws]) = Len(sent[ws]) + 1
              /\ sent'[ws][Len(sent'[ws])].body = frame]_vars

\* the connections a step attempted a delivery to (the sockets it called
\* send on)
Attempted == {c \in Ids : sent'[c] # sent[c]}

C19_OnlyOpenReceive ==
    [][\A ws \in Ids, frame \in Frames :
          BroadcastStep(ws, frame) =>
              /\ \A c \in Ids :
                    readyState[c] # "OPEN" =>
                        sent'[c] = sent[c] /\ buffer'[c] = buffer[c] /\ wire'[c] = wire[c]
              /\ \A c \in Attempted :
                    c \in clients /\ c # ws /\ readyState[c] = "OPEN"]_vars

\* simple handler: a CLOSING socket is still in wss.clients and holds only
\* its welcome, while an OPEN one was sent the broadcast of a third
C19_Witness ==
    /\ handler = "simple"
    /\ events = 5
    /\ \E x, a, c \in Ids :
          /\ {x, a, c} \subseteq clients
          /\ readyState[x] = "CLOSING"
          /\ readyState[a] = "OPEN" /\ readyState[c] = "OPEN"
          /\ sent[x] = <<Welcome("simple")>> /\ sent[a] = <<Welcome("simple")>>
          /\ Len(sent[c]) = 2 /\ sent[c][2].tag = "broadcast"

\* the number of welcome messages in a sequence of messages
RECURSIVE Welcomes(_)
Welcomes(q) ==
    IF q = <<>> THEN 0
    ELSE (IF Head(q).tag = "welcome" THEN 1 ELSE 0) + Welcomes(Tail(q))

\* C20: a connection event sends the welcome message to the new socket, once,
\* and nothing to any other socket; after every step the messages sent to an
\* accepted socket start with the welcome and hold no second one, and what
\* the socket has received so far is a prefix of them, so the first message a
\* client receives is the welcome.
C20_WelcomeFirst ==
    [][/\ Connection =>
            /\ sent'[NewSocket] = <<Welcome(handler)>>
            /\ buffer'[NewSocket] = <<Welcome(handler)>>
            /\ OthersUntouched(NewSocket)
            /\ \A c \in Ids \ {NewSocket} : wire'[c] = wire[c]
       /\ \A c \in Ids :
            readyState'[c] # "NONE" =>
                /\ sent'[c] # <<>> /\ sent'[c][1] = Welcome(handler)
                /\ Welcomes(sent'[c]) = 1
                /\ IsPrefix(wire'[c], sent'[c])]_vars

\* typed handler: the second of two OPEN clients has received its welcome
\* and then the broadcast of the first, in that order, and a third client
\* has been accepted since
C20_Witness ==
    /\ handler = "typed"
    /\ events = 6
    /\ \A c \in {1, 2, 3} : c \in clients /\ readyState[c] = "OPEN"
    /\ wire[2] = <<Welcome("typed"), BroadcastOf("typed", "broadcast")>>
    /\ sent[1] = <<Welcome("typed")>> /\ wire[1] = <<>>
    /\ sent[3] = <<Welcome("typed")>> /\ wire[3] = <<>>
====
